---- MODULE Spec2Model ----
(***************************************************************************)
(* zotero-bib-to-gh.py: synchronisation of Zotero libraries to local       *)
(* bibliography files.  One run of main() syncs the user's library and     *)
(* then every group of the groups listing, one after the other.  The model *)
(* takes one step per GET attempt and per await of a file operation (open, *)
(* readline, write, close), and lets a run stop abnormally (process        *)
(* killed, OSError) between any two.                                       *)
(*                                                                         *)
(* Texts are sequences of one-character strings.  A file is a record       *)
(* [exists, text], text being the characters on disk.  Resource 0 is the   *)
(* user's library (zotero.bib), a resource g > 0 is the group with id g    *)
(* ({g}.bib).                                                              *)
(*                                                                         *)
(* Environment assumptions: every successful items response carries an     *)
(* integer last-modified-version header; a "next" link always has a url;   *)
(* marker files hold, of the characters int() skips as whitespace, only    *)
(* space, tab, newline, carriage return and form feed (not the vertical    *)
(* tab, the separators 1C-1F or the spaces beyond ASCII), and only ASCII   *)
(* digits.  The chains of Spec and SpecRemote are shorter than the depth   *)
(* at which the interpreter raises RecursionError; SpecChain has longer    *)
(* ones.                                                                   *)
(***************************************************************************)
EXTENDS Integers, Sequences, FiniteSets, TLC

VARIABLES
    remoteVersion,  \* resource -> last-modified-version the API reports
    remotePages,    \* resource -> number of pages of the "next" link chain
    remoteLoop,     \* resource -> the last page links back to the first (no end)
    content,        \* resource -> file bibliography/{name}
    marker,         \* resource -> file bibliography/{name}-last-modified-version
    pc,             \* position of the run
    run,            \* number of the run (runs of the scheduled job)
    cur,            \* resource of the running download_and_write_bib
    attempt,        \* number of the GET attempt of the running fetch_url
    latest,         \* last-modified-version header of the probe's response
    cached,         \* cached_version of the running sync
    url,            \* page requested by follow_and_extract (index in the chain)
    texts,          \* request.text of the pending follow_and_extract frames
    body,           \* biblatex_file_content
    groups,         \* groups_response.json()
    gi,             \* index of the next entry of the for loop over groups
    lastStatus,     \* status of the last GET attempt (0: no response)
    sync,           \* record of the running or last download_and_write_bib
    synced,         \* resource -> a sync of it returned normally before
    env,            \* which credentials this run found in the environment
    netUsed,        \* a GET request was issued in this run
    wrote,          \* a file was opened for writing in this run
    logged,         \* logger.error messages of this run
    started         \* resources whose sync began in this run, in order

vars == <<remoteVersion, remotePages, remoteLoop, content, marker, pc, run, cur,
          attempt, latest, cached, url, texts, body, groups, gi, lastStatus, sync,
          synced, env, netUsed, wrote, logged, started>>

-----------------------------------------------------------------------------
(* Bounds of the model *)

MaxPages == 2       \* pages per link chain
MaxGroups == 2      \* entries of the groups listing
MaxRuns == 2        \* runs of the job
\* The number of pending follow_and_extract frames at which the interpreter
\* raises RecursionError (sys.getrecursionlimit() is 1000 by default, reached
\* within some hundreds of nested calls), scaled to the chains of the model.
MaxDepth == MaxPages + 2

(* Program constants *)

Attempts == 3       \* stamina.retry(attempts=3)
Forbidden == 403    \* status of the access check

GroupIds == {1}
Resources == {0} \cup GroupIds
\* last-modified-version values: a library never modified (0), a one-digit
\* and a two-digit version
Versions == {0, 9, 12}
Statuses == {0, 200, 403, 500}    \* 0: the request got no response (transport error)

-----------------------------------------------------------------------------
(* Texts and files *)

Digits == <<"0", "1", "2", "3", "4", "5", "6", "7", "8", "9">>
Upper == <<"A", "B", "C", "D", "E", "F", "G", "H">>
Lower == <<"a", "b", "c", "d", "e", "f", "g", "h">>

Missing == [exists |-> FALSE, text |-> <<>>]
File(t) == [exists |-> TRUE, text |-> t]

StrLastDigit(n) == <<Digits[(n % 10) + 1]>>

\* str(latest_version)
RECURSIVE Str(_)
Str(n) ==
    IF n < 0 THEN <<"-">> \o Str(-n)
    ELSE IF n < 10 THEN <<Digits[n + 1]>>
    ELSE Str(n \div 10) \o <<Digits[(n % 10) + 1]>>

\* response.text of page i of resource r: the remote's items of that page at
\* its current version (a letter for the page, then the version); a page past
\* the end of the chain is empty
PageText(r, i) ==
    IF i > remotePages[r] THEN <<>>
    ELSE <<IF r = 0 THEN Upper[i] ELSE Lower[i]>> \o Str(remoteVersion[r])

\* request.links["next"]: the page the i-th page links to, 0 when it has no "next" link
NextLink(r, i) ==
    IF i < remotePages[r] THEN i + 1
    ELSE IF remoteLoop[r] THEN 1
    ELSE 0

\* next_url, the url the recursive follow_and_extract call is given
NextUrl(r, u) == NextLink(r, u)

FileOfDefault(r) == 0

\* the files of a sync: bibliography/{file_name} and its marker, file_name
\* being "zotero.bib" for the user's library and "{group_id}.bib" for a group
FileOf(r) == r

\* file.readline() of a file opened in text mode (universal newlines): the
\* text up to the first line end, "\n", "\r" or "\r\n", the line end being
\* given as "\n"
ReadLine(t) ==
    LET ends == {i \in 1..Len(t) : t[i] \in {"\n", "\r"}}
    IN  IF ends = {} THEN t
        ELSE SubSeq(t, 1, (CHOOSE i \in ends : \A j \in ends : i <= j) - 1) \o <<"\n">>

\* the characters int() skips at both ends of its text
IsSpace(c) == c \in {" ", "\n", "\t", "\r", "\f"}
IsDigit(c) == \E d \in 1..10 : Digits[d] = c
DigitValue(c) == (CHOOSE d \in 1..10 : Digits[d] = c) - 1

\* str.strip() as int() applies it
Strip(t) ==
    LET keep == {i \in 1..Len(t) : ~IsSpace(t[i])}
    IN  IF keep = {} THEN <<>>
        ELSE SubSeq(t, CHOOSE i \in keep : \A j \in keep : i <= j,
                       CHOOSE i \in keep : \A j \in keep : i >= j)

RECURSIVE DigitsValue(_)
DigitsValue(d) ==
    IF Len(d) = 0 THEN 0
    ELSE DigitsValue(SubSeq(d, 1, Len(d) - 1)) * 10 + DigitValue(d[Len(d)])

\* int(text): ok is FALSE where int raises ValueError.  After the whitespace
\* and a sign come digits, with single "_" allowed between two digits.
IntOf(t) ==
    LET s == Strip(t)
        signed == Len(s) > 0 /\ s[1] \in {"+", "-"}
        d == IF signed THEN Tail(s) ELSE s
        n == DigitsValue(SelectSeq(d, IsDigit))
    IN  IF /\ Len(d) > 0
           /\ \A i \in 1..Len(d) :
                \/ IsDigit(d[i])
                \/ /\ d[i] = "_" /\ i > 1 /\ i < Len(d)
                   /\ IsDigit(d[i - 1]) /\ IsDigit(d[i + 1])
        THEN [ok |-> TRUE, value |-> IF signed /\ s[1] = "-" THEN 0 - n ELSE n]
        ELSE [ok |-> FALSE, value |-> 0]

CachedVersionAlwaysZero(file) == 0

\* cached_version: FileNotFoundError and ValueError give 0
CachedVersion(file) ==
    IF ~file.exists THEN 0
    ELSE LET parsed == IntOf(ReadLine(file.text))
         IN  IF parsed.ok THEN parsed.value ELSE 0

UnchangedGreater(cachedVersion, latestVersion) == cachedVersion > latestVersion

\* cached_version == latest_version
VersionsEqual(cachedVersion, latestVersion) == cachedVersion = latestVersion

CombineSwapped(text, rest) == rest \o text

\* request.text + await follow_and_extract(client, next_url, headers)
Combine(text, rest) == text \o rest

\* the value the outermost follow_and_extract returns once the last page
\* (no "next" link, KeyError) has been fetched
RECURSIVE FollowResult(_)
FollowResult(ts) ==
    IF Len(ts) = 1 THEN ts[1]
    ELSE Combine(Head(ts), FollowResult(Tail(ts)))

-----------------------------------------------------------------------------
(* fetch_url *)

\* response.raise_for_status() or client.get raising an httpx.HTTPError
HTTPError(status) == status = 0 \/ status \notin 200..299

\* stamina stops retrying after `attempts` attempts, or once its total
\* timeout (45 s by default, not overridden) has elapsed
GivesUp(att, expired) == att >= Attempts \/ expired

\* whether the total timeout has elapsed when an attempt ends: stamina looks
\* at it only after a failed attempt that is not the last one allowed
Expiry(att, status) ==
    IF HTTPError(status) /\ att < Attempts THEN BOOLEAN ELSE {FALSE}

\* what one GET attempt makes of fetch_url: it returns the response, retries,
\* or raises the error to its caller
FetchUrl(att, status, expired) ==
    IF ~HTTPError(status) THEN "return"
    ELSE IF GivesUp(att, expired) THEN "raise"
    ELSE "retry"

-----------------------------------------------------------------------------
(* main *)

CredentialsUserOnly(uid, tok) == uid

\* neither environ.get returned None
CredentialsOk(uid, tok) == uid /\ tok

TruthyAny(group) == TRUE

\* if group_id:
Truthy(group) == group.has /\ group.id # 0

NoGroup == [has |-> FALSE, id |-> 0]
\* the entries of a listing: without an id, with the id of a group, or with
\* an id of false truth value (0, standing also for "")
Entries == {NoGroup} \cup {[has |-> TRUE, id |-> g] : g \in GroupIds \cup {0}}
Listings == UNION {[1..n -> Entries] : n \in 0..MaxGroups}

NoSync == [res |-> 0, result |-> "none", compared |-> FALSE, cached |-> 0,
           latest |-> 0, gets |-> 0, pages |-> 0, again |-> FALSE,
           contentDone |-> FALSE, preContent |-> Missing, preMarker |-> Missing,
           before |-> "none"]

\* The files a run finds.  The user's library starts from any combination of
\* a content file (absent or old) and a marker file (absent, not a number,
\* "9", or "12" with a CRLF line end); a group starts either without files or as
\* a sync at version 9 left it.  Empty files come about by a run stopping
\* after an open.
InitContents == {Missing, File(<<"o">>)}
InitMarkers == {Missing, File(<<"x">>), File(<<"9">>), File(<<"1", "2", "\r", "\n">>)}
InitGroupFiles == {<<Missing, Missing>>, <<File(<<"o">>), File(<<"9">>)>>}

\* The remote a run finds: any version for the user's library, with a chain
\* of one page or of the most pages; for a group the last version, which
\* exceeds the marker "9", and a chain of the most pages.  A later sync of
\* the group finds the version its marker holds.
InitVersions(r) == IF r = 0 THEN Versions ELSE {v \in Versions : \A w \in Versions : w <= v}
InitPages(r) == IF r = 0 THEN {1, MaxPages} ELSE {MaxPages}

\* the libraries on the server when the job is first run
InitLibraries ==
    /\ remoteVersion \in [Resources -> Versions]
    /\ remotePages \in [Resources -> 1..MaxPages]
    /\ \A r \in Resources : remoteVersion[r] \in InitVersions(r) /\ remotePages[r] \in InitPages(r)

\* the directory bibliography/ when the job is first run
InitFiles ==
    \E c \in InitContents, m \in InitMarkers, g \in [GroupIds -> InitGroupFiles] :
        /\ content = [r \in Resources |-> IF r = 0 THEN c ELSE g[r][1]]
        /\ marker = [r \in Resources |-> IF r = 0 THEN m ELSE g[r][2]]

\* the process before main() has run a line
InitRun ==
    /\ pc = "start"
    /\ run = 1
    /\ cur = 0
    /\ attempt = 1
    /\ latest = 0
    /\ cached = 0
    /\ url = 0
    /\ texts = <<>>
    /\ body = <<>>
    /\ groups = <<>>
    /\ gi = 0
    /\ lastStatus = 200
    /\ sync = NoSync
    /\ synced = [r \in Resources |-> FALSE]
    /\ env = [uid |-> TRUE, tok |-> TRUE]
    /\ netUsed = FALSE
    /\ wrote = FALSE
    /\ logged = {}
    /\ started = <<>>

Init ==
    /\ InitLibraries
    /\ remoteLoop = [r \in Resources |-> FALSE]
    /\ InitFiles
    /\ InitRun

remote == <<remoteVersion, remotePages, remoteLoop>>
files == <<content, marker>>
locals == <<latest, cached, url, texts, body>>

\* the call download_and_write_bib(client, zotero_headers, url, name) begins
StartSync(r) ==
    /\ cur' = r
    /\ pc' = "probe"
    /\ attempt' = 1
    /\ sync' = [NoSync EXCEPT !.res = r, !.result = "probing", !.again = synced[r],
                              !.preContent = content[FileOf(r)],
                              !.preMarker = marker[FileOf(r)],
                              !.before = sync.result]
    /\ started' = Append(started, r)

\* download_and_write_bib returns to main
EndSync(result, s) ==
    /\ sync' = [s EXCEPT !.result = result]
    /\ synced' = [synced EXCEPT ![cur] = TRUE]
    /\ pc' = IF gi = 0 THEN "groups" ELSE "loop"
    /\ attempt' = 1
    /\ latest' = 0 /\ cached' = 0 /\ url' = 0 /\ texts' = <<>> /\ body' = <<>>

\* the error is caught around the call and the run goes on
RaiseCaught(s) ==
    /\ sync' = [s EXCEPT !.result = IF s.result \in {"probing", "fetching"}
                                    THEN "raised" ELSE s.result]
    /\ pc' = IF pc = "groups" THEN "done" ELSE IF gi = 0 THEN "groups" ELSE "loop"
    /\ latest' = 0 /\ cached' = 0 /\ url' = 0 /\ texts' = <<>> /\ body' = <<>>
    /\ UNCHANGED <<groups, gi, attempt, synced>>

\* an httpx.HTTPError leaves fetch_url: nothing up to asyncio.run catches it
Raise(s) ==
    /\ sync' = [s EXCEPT !.result = IF s.result \in {"probing", "fetching"}
                                    THEN "raised" ELSE s.result]
    /\ pc' = "raised"
    /\ latest' = 0 /\ cached' = 0 /\ url' = 0 /\ texts' = <<>> /\ body' = <<>>
    /\ groups' = <<>> /\ gi' = 0
    /\ UNCHANGED <<attempt, synced>>

CheckCredentials ==
    /\ pc = "start"
    /\ \E uid \in BOOLEAN, tok \in BOOLEAN :
        /\ env' = [uid |-> uid, tok |-> tok]
        /\ IF ~CredentialsOk(uid, tok)
           THEN /\ logged' = {IF ~uid THEN "ZOTERO_USER_ID not set"
                                      ELSE "ZOTERO_BEARER_TOKEN not set"}
                /\ pc' = "done"
                /\ UNCHANGED <<cur, attempt, sync, started>>
           ELSE /\ StartSync(0)
                /\ UNCHANGED logged
    /\ UNCHANGED <<remote, files, run, locals, groups, gi, lastStatus, synced,
                   netUsed, wrote>>

\* line 30 and, once fetch_url has returned, lines 32-34: one GET attempt of
\* the probe; the response is kept, with its last-modified-version header
ProbeStep(status, expired) ==
    /\ pc = "probe"
    /\ lastStatus' = status
    /\ netUsed' = TRUE
    /\ LET outcome == FetchUrl(attempt, status, expired)
           s == [sync EXCEPT !.gets = IF outcome = "return" THEN @ + 1 ELSE @]
       IN  CASE outcome = "retry" ->
                  /\ attempt' = attempt + 1
                  /\ UNCHANGED <<pc, sync, synced, locals, logged, groups, gi>>
             [] outcome = "raise" ->
                  /\ Raise(s)
                  /\ UNCHANGED logged
             [] outcome = "return" ->
                  IF status = Forbidden
                  THEN /\ logged' = logged \cup {"Access to library not granted."}
                       /\ EndSync("denied", s)
                       /\ UNCHANGED <<groups, gi>>
                  ELSE /\ sync' = s
                       /\ pc' = "open_cache"
                       /\ attempt' = 1
                       /\ latest' = remoteVersion[cur]
                       /\ UNCHANGED <<logged, groups, gi, cached, url, texts, body, synced>>
    /\ UNCHANGED <<remote, run, cur, env, wrote, started>>

ProbeOpeningFirst ==
    /\ \E status \in Statuses : \E expired \in Expiry(attempt, status) : ProbeStep(status, expired)
    /\ content' = [content EXCEPT ![FileOf(cur)] = File(<<>>)]
    /\ UNCHANGED marker

Probe ==
    /\ \E status \in Statuses : \E expired \in Expiry(attempt, status) : ProbeStep(status, expired)
    /\ UNCHANGED files

\* lines 45-55: latest_version is taken from the kept response and compared
\* with cached_version; the sync returns, or goes on to follow_and_extract
CompareVersions(cachedVersion) ==
    LET c == [sync EXCEPT !.compared = TRUE, !.cached = cachedVersion, !.latest = latest]
    IN  IF VersionsEqual(cachedVersion, latest)
        THEN EndSync("skipped", c)
        ELSE /\ sync' = [c EXCEPT !.result = "fetching"]
             /\ pc' = "page"
             /\ attempt' = 1
             /\ cached' = cachedVersion
             /\ url' = 1
             /\ UNCHANGED <<latest, texts, body, synced>>

\* lines 36-38: the marker file is opened for reading; FileNotFoundError
\* gives cached_version = 0 (line 43) and the comparison follows at once
OpenCache ==
    /\ pc = "open_cache"
    /\ IF marker[FileOf(cur)].exists
       THEN /\ pc' = "read_cache"
            /\ UNCHANGED <<attempt, locals, sync, synced>>
       ELSE CompareVersions(CachedVersion(marker[FileOf(cur)]))
    /\ UNCHANGED <<remote, files, run, cur, groups, gi, lastStatus, env, netUsed,
                   wrote, logged, started>>

\* line 40: int(await file.readline()); where int raises ValueError,
\* cached_version is 0 (line 43) once the file has been closed
ReadCache ==
    /\ pc = "read_cache"
    /\ cached' = CachedVersion(marker[FileOf(cur)])
    /\ pc' = "close_cache"
    /\ UNCHANGED <<remote, files, run, cur, attempt, latest, url, texts, body, groups,
                   gi, lastStatus, sync, synced, env, netUsed, wrote, logged, started>>

\* the end of the with block of lines 36-41 closes the file; lines 45-55 follow
CloseCache ==
    /\ pc = "close_cache"
    /\ CompareVersions(cached)
    /\ UNCHANGED <<remote, files, run, cur, groups, gi, lastStatus, env, netUsed,
                   wrote, logged, started>>

\* lines 19-24: one GET attempt of the fetch of page `url`
FetchPageStep(status, expired) ==
    /\ pc = "page"
    /\ Len(texts) < MaxDepth
    /\ lastStatus' = status
    /\ LET outcome == FetchUrl(attempt, status, expired)
           s == [sync EXCEPT !.gets = IF outcome = "return" THEN @ + 1 ELSE @,
                             !.pages = IF attempt = 1 THEN @ + 1 ELSE @]
       IN  CASE outcome = "retry" ->
                  /\ attempt' = attempt + 1
                  /\ sync' = s
                  /\ UNCHANGED <<pc, synced, locals, groups, gi>>
             [] outcome = "raise" -> Raise(s)
             [] outcome = "return" ->
                  LET fetched == Append(texts, PageText(cur, url))
                  IN  /\ sync' = s
                      /\ attempt' = 1
                      /\ IF NextLink(cur, url) # 0
                         THEN /\ url' = NextUrl(cur, url)
                              /\ texts' = fetched
                              /\ UNCHANGED <<pc, body>>
                         ELSE /\ body' = FollowResult(fetched)
                              /\ pc' = "open_content"
                              /\ url' = 0
                              /\ texts' = <<>>
                      /\ UNCHANGED <<latest, cached, synced, groups, gi>>
    /\ UNCHANGED <<remote, files, run, cur, env, netUsed, wrote, logged, started>>

\* `except Exception` in place of `except KeyError`: a failure of the fetch of
\* a later page is caught by the frame of the page before it
FetchPageBroadExcept ==
    \E status \in Statuses : \E expired \in Expiry(attempt, status) :
        IF pc = "page" /\ Len(texts) > 0 /\ FetchUrl(attempt, status, expired) = "raise"
        THEN /\ lastStatus' = status
             /\ body' = FollowResult(texts)
             /\ pc' = "open_content"
             /\ url' = 0 /\ texts' = <<>> /\ attempt' = 1
             /\ UNCHANGED <<remote, files, run, cur, latest, cached, groups, gi, sync,
                            synced, env, netUsed, wrote, logged, started>>
        ELSE FetchPageStep(status, expired)

FetchPage == \E status \in Statuses : \E expired \in Expiry(attempt, status) : FetchPageStep(status, expired)

\* line 61: open(..., "w") creates or truncates the content file
OpenContent ==
    /\ pc = "open_content"
    /\ content' = [content EXCEPT ![FileOf(cur)] = File(<<>>)]
    /\ pc' = "write_content"
    /\ wrote' = TRUE
    /\ UNCHANGED <<remote, marker, run, cur, attempt, locals, groups, gi,
                   lastStatus, sync, synced, env, netUsed, logged, started>>

\* line 62: await file.write(...) returns.  What exceeds the buffer of the
\* file (8192 bytes) has been written through, the rest waits for the close:
\* the file holds some first part of the text, none of it for a short text,
\* all of it for a text that fills the buffer.
WriteContent ==
    /\ pc = "write_content"
    /\ \E n \in 0..Len(body) :
        content' = [content EXCEPT ![FileOf(cur)] = File(SubSeq(body, 1, n))]
    /\ pc' = "close_content"
    /\ UNCHANGED <<remote, marker, run, cur, attempt, locals, groups, gi,
                   lastStatus, sync, synced, env, netUsed, wrote, logged, started>>

CloseContentNotFlushed ==
    /\ pc = "close_content"
    /\ pc' = "open_marker"
    /\ sync' = [sync EXCEPT !.contentDone = TRUE]
    /\ UNCHANGED <<remote, files, run, cur, attempt, locals, groups, gi,
                   lastStatus, synced, env, netUsed, wrote, logged, started>>

\* line 63, the end of the with block: the buffer is flushed and the file closed
CloseContent ==
    /\ pc = "close_content"
    /\ content' = [content EXCEPT ![FileOf(cur)] = File(body)]
    /\ pc' = "open_marker"
    /\ sync' = [sync EXCEPT !.contentDone = TRUE]
    /\ UNCHANGED <<remote, marker, run, cur, attempt, locals, groups, gi,
                   lastStatus, synced, env, netUsed, wrote, logged, started>>

\* the flush of the close stops part-way (OSError of a full disk or a file
\* size limit, or the process killed): the file keeps what it held and
\* what the flush added to it, short of the whole text, and the run ends
CloseContentFails ==
    /\ pc = "close_content"
    /\ \E n \in Len(content[FileOf(cur)].text)..(Len(body) - 1) :
        content' = [content EXCEPT ![FileOf(cur)] = File(SubSeq(body, 1, n))]
    /\ pc' = "crashed"
    /\ latest' = 0 /\ cached' = 0 /\ url' = 0 /\ texts' = <<>> /\ body' = <<>>
    /\ groups' = <<>> /\ gi' = 0 /\ attempt' = 1
    /\ UNCHANGED <<remote, marker, run, cur, lastStatus, sync, synced, env,
                   netUsed, wrote, logged, started>>

\* lines 65-67: open(..., "w") creates or truncates the marker file
OpenMarker ==
    /\ pc = "open_marker"
    /\ marker' = [marker EXCEPT ![FileOf(cur)] = File(<<>>)]
    /\ pc' = "write_marker"
    /\ wrote' = TRUE
    /\ UNCHANGED <<remote, content, run, cur, attempt, locals, groups, gi,
                   lastStatus, sync, synced, env, netUsed, logged, started>>

\* line 68: await file.write(str(latest_version)) returns with the text in
\* the buffer of the file, which the digits of a version never fill
WriteMarker ==
    /\ pc = "write_marker"
    /\ pc' = "close_marker"
    /\ UNCHANGED <<remote, files, run, cur, attempt, locals, groups, gi,
                   lastStatus, sync, synced, env, netUsed, wrote, logged, started>>

\* the marker is given the version the server has when the marker is written
CloseMarkerCurrent ==
    /\ pc = "close_marker"
    /\ marker' = [marker EXCEPT ![FileOf(cur)] = File(Str(remoteVersion[cur]))]
    /\ EndSync("written", sync)
    /\ UNCHANGED <<remote, content, run, cur, groups, gi, lastStatus, env,
                   netUsed, wrote, logged, started>>

\* line 69, the end of the with block: the buffer is flushed, the file
\* closed, and the sync returns
CloseMarker ==
    /\ pc = "close_marker"
    /\ marker' = [marker EXCEPT ![FileOf(cur)] = File(Str(latest))]
    /\ EndSync("written", sync)
    /\ UNCHANGED <<remote, content, run, cur, groups, gi, lastStatus, env,
                   netUsed, wrote, logged, started>>

\* the flush of the close stops part-way: the marker keeps the first digits
\* of the version and the run ends
CloseMarkerFails ==
    /\ pc = "close_marker"
    /\ \E n \in 1..(Len(Str(latest)) - 1) :
        marker' = [marker EXCEPT ![FileOf(cur)] = File(SubSeq(Str(latest), 1, n))]
    /\ pc' = "crashed"
    /\ latest' = 0 /\ cached' = 0 /\ url' = 0 /\ texts' = <<>> /\ body' = <<>>
    /\ groups' = <<>> /\ gi' = 0 /\ attempt' = 1
    /\ UNCHANGED <<remote, content, run, cur, lastStatus, sync, synced, env,
                   netUsed, wrote, logged, started>>

\* lines 94-99: one GET attempt of the fetch of the groups listing
FetchGroups ==
    /\ pc = "groups"
    /\ \E status \in Statuses : \E expired \in Expiry(attempt, status) :
        /\ lastStatus' = status
        /\ LET outcome == FetchUrl(attempt, status, expired)
           IN  CASE outcome = "retry" ->
                      /\ attempt' = attempt + 1
                      /\ UNCHANGED <<pc, groups, gi, sync, synced, locals>>
                 [] outcome = "raise" ->
                      Raise(sync)
                 [] outcome = "return" ->
                      /\ \E listing \in Listings : groups' = listing
                      /\ gi' = 1
                      /\ pc' = "loop"
                      /\ attempt' = 1
                      /\ UNCHANGED <<sync, synced, locals>>
    /\ netUsed' = TRUE
    /\ UNCHANGED <<remote, files, run, cur, env, wrote, logged, started>>

\* the loop takes the entries from the end of the listing
ForGroupReversed ==
    /\ pc = "loop"
    /\ gi <= Len(groups)
    /\ gi' = gi + 1
    /\ IF Truthy(groups[Len(groups) - gi + 1])
       THEN StartSync(groups[Len(groups) - gi + 1].id)
       ELSE UNCHANGED <<pc, cur, attempt, sync, started>>
    /\ UNCHANGED <<remote, files, run, locals, groups, lastStatus, synced, env,
                   netUsed, wrote, logged>>

\* lines 101-107: one iteration of the loop over the groups
ForGroup ==
    /\ pc = "loop"
    /\ gi <= Len(groups)
    /\ gi' = gi + 1
    /\ IF Truthy(groups[gi])
       THEN StartSync(groups[gi].id)
       ELSE UNCHANGED <<pc, cur, attempt, sync, started>>
    /\ UNCHANGED <<remote, files, run, locals, groups, lastStatus, synced, env,
                   netUsed, wrote, logged>>

\* line 109: the loop is over
Finish ==
    /\ pc = "loop"
    /\ gi > Len(groups)
    /\ pc' = "done"
    /\ UNCHANGED <<remote, files, run, cur, attempt, locals, groups, gi,
                   lastStatus, sync, synced, env, netUsed, wrote, logged, started>>

Running == pc \notin {"start", "done", "raised", "crashed"}

\* the process is killed, or an exception other than httpx.HTTPError (an
\* OSError of a file operation) ends the run
Crash ==
    /\ Running
    /\ pc' = "crashed"
    /\ latest' = 0 /\ cached' = 0 /\ url' = 0 /\ texts' = <<>> /\ body' = <<>>
    /\ groups' = <<>> /\ gi' = 0 /\ attempt' = 1
    /\ UNCHANGED <<remote, files, run, cur, lastStatus, sync, synced, env,
                   netUsed, wrote, logged, started>>

\* the job is scheduled again: asyncio.run(main()) in a new process
NewRun ==
    /\ pc \in {"done", "raised", "crashed"}
    /\ run < MaxRuns
    /\ run' = run + 1
    /\ pc' = "start"
    /\ cur' = 0 /\ attempt' = 1 /\ groups' = <<>> /\ gi' = 0
    /\ lastStatus' = 200
    /\ sync' = NoSync
    /\ env' = [uid |-> TRUE, tok |-> TRUE]
    /\ netUsed' = FALSE /\ wrote' = FALSE /\ logged' = {} /\ started' = <<>>
    /\ UNCHANGED <<remote, files, locals, synced>>

Next ==
    \/ CheckCredentials
    \/ Probe
    \/ OpenCache
    \/ ReadCache
    \/ CloseCache
    \/ FetchPage
    \/ OpenContent
    \/ WriteContent
    \/ CloseContent
    \/ CloseContentFails
    \/ OpenMarker
    \/ WriteMarker
    \/ CloseMarker
    \/ CloseMarkerFails
    \/ FetchGroups
    \/ ForGroup
    \/ Finish
    \/ Crash
    \/ NewRun

Spec == Init /\ [][Next]_vars

-----------------------------------------------------------------------------
(* The remote changing while the job runs *)

\* a library is modified on the server: its last-modified-version grows, and
\* its link chain holds the items of the new version on any number of pages
RemoteChange ==
    /\ \E r \in Resources, v \in Versions, n \in 1..MaxPages :
        /\ v > remoteVersion[r]
        /\ remoteVersion' = [remoteVersion EXCEPT ![r] = v]
        /\ remotePages' = [remotePages EXCEPT ![r] = n]
    /\ UNCHANGED <<remoteLoop, files, pc, run, cur, attempt, locals, groups, gi,
                   lastStatus, sync, synced, env, netUsed, wrote, logged, started>>

\* the marker file holds an integer (as int() reads its first line)
MarkerHolds(r) == marker[r].exists /\ IntOf(ReadLine(marker[r].text)).ok

\* The files earlier runs of the job can have left: a marker that holds an
\* integer holds a version the server had before its current one.  The
\* user's library starts at version 9 and is modified while the job runs;
\* the groups start at the last version of Versions; every chain starts as
\* the longest one.
InitRemote ==
    /\ Init
    /\ \A r \in Resources :
        MarkerHolds(r) => CachedVersion(marker[r]) < remoteVersion[r]
    /\ remoteVersion[0] = 9
    /\ \A r \in GroupIds : \A v \in Versions : v <= remoteVersion[r]
    /\ \A r \in Resources : remotePages[r] = MaxPages

NextRemote ==
    \/ Next
    \/ RemoteChange

SpecRemote == InitRemote /\ [][NextRemote]_vars

-----------------------------------------------------------------------------
(* Link chains of any length, with and without an end, every fetch         *)
(* succeeding in the end                                                   *)

\* The libraries have the version 9 and chains of up to one page more than
\* the interpreter lets follow_and_extract nest; the chain of any library
\* may link its last page back to its first.  The user's library has no
\* marker or the marker "9".
InitChain ==
    /\ remoteVersion = [r \in Resources |-> 9]
    /\ remotePages \in [Resources -> 1..(MaxDepth + 1)]
    /\ remoteLoop \in [Resources -> BOOLEAN]
    /\ InitFiles
    /\ content[0] = Missing /\ marker[0] \in {Missing, File(<<"9">>)}
    /\ InitRun

\* A fetch_url that succeeds within its attempts and its timeout: the GET
\* attempts of the probe, of a page and of the groups listing that do not
\* end in a raise.
ProbeNoRaise == Probe /\ pc' # "raised"
FetchPageNoRaise == FetchPage /\ pc' # "raised"
FetchGroupsNoRaise == FetchGroups /\ pc' # "raised"

\* line 22 with MaxDepth frames of follow_and_extract pending: the next call
\* raises RecursionError, which no frame catches (not a KeyError) and which
\* ends the run like any exception that leaves main
DepthExceeded ==
    /\ pc = "page"
    /\ Len(texts) >= MaxDepth
    /\ Raise(sync)
    /\ UNCHANGED <<remote, files, run, cur, lastStatus, env, netUsed, wrote,
                   logged, started>>

\* One run of the job in which no fetch_url raises and the process is not killed.
NextChain ==
    \/ CheckCredentials
    \/ ProbeNoRaise
    \/ OpenCache
    \/ ReadCache
    \/ CloseCache
    \/ FetchPageNoRaise
    \/ DepthExceeded
    \/ OpenContent
    \/ WriteContent
    \/ CloseContent
    \/ OpenMarker
    \/ WriteMarker
    \/ CloseMarker
    \/ FetchGroupsNoRaise
    \/ ForGroup
    \/ Finish

\* the event loop runs the one task of the process whenever it can go on
SpecChain == InitChain /\ [][NextChain]_vars /\ WF_vars(NextChain)

-----------------------------------------------------------------------------
(* Properties *)

\* the bodies of the first n pages of the chain of r, one after the other
RECURSIVE ChainPrefix(_, _)
ChainPrefix(r, n) ==
    IF n = 0 THEN <<>> ELSE ChainPrefix(r, n - 1) \o PageText(r, n)

ChainText(r) == ChainPrefix(r, remotePages[r])

FilesAsBefore == content[sync.res] = sync.preContent /\ marker[sync.res] = sync.preMarker

\* a GET attempt of the probe of the running or last sync was answered 403,
\* and no later attempt of that probe has been answered since
ProbeAnswered403 ==
    sync.result \in {"probing", "raised", "denied"} /\ lastStatus = Forbidden
        /\ (sync.result = "denied" \/ sync.gets = 0)

\* the marker file the sync found is missing or int() raises on its first line
MarkerUnreadable ==
    ~sync.preMarker.exists \/ ~IntOf(ReadLine(sync.preMarker.text)).ok

\* C1: a sync whose cached version equals the latest version ends as a skip:
\* both files are as the sync found them, follow_and_extract was not called,
\* and the probe is the only GET of the sync that succeeded.
C1_FastPath ==
    (sync.compared /\ sync.cached = sync.latest) =>
        /\ sync.result = "skipped"
        /\ FilesAsBefore
        /\ sync.pages = 0
        /\ sync.gets = 1

C1_Witness ==
    /\ sync.result = "skipped" /\ sync.cached = 12 /\ sync.latest = 12
    /\ sync.preMarker.exists /\ pc = "groups"

\* C2: when a sync has run through the full fetch, the marker file holds the
\* decimal digits of the version the probe saw, and the content file holds
\* the bodies of all pages of the chain in page order.
C2_FullSync ==
    sync.result = "written" =>
        /\ sync.latest = remoteVersion[sync.res]
        /\ marker[sync.res].exists
        /\ \A i \in 1..Len(marker[sync.res].text) : IsDigit(marker[sync.res].text[i])
        /\ IntOf(marker[sync.res].text) = [ok |-> TRUE, value |-> sync.latest]
        /\ content[sync.res] = File(ChainText(sync.res))

C2_Witness ==
    /\ sync.result = "written" /\ sync.res = 0
    /\ sync.cached = 9 /\ sync.latest = 12
    /\ remotePages[0] = MaxPages
    /\ content[0].text = ChainPrefix(0, MaxPages)
    /\ marker[0].text = <<"1", "2">>

\* C3: whenever the marker file of the running or last sync differs from the
\* one the sync found, the content file of that sync has been written in
\* full; so a run that stops before the marker is opened leaves the old marker.
C3_ContentBeforeMarker ==
    (sync.result # "none" /\ marker[sync.res] # sync.preMarker) =>
        /\ sync.contentDone
        /\ content[sync.res] = File(ChainText(sync.res))

C3_Witness ==
    /\ pc = "crashed" /\ sync.contentDone
    /\ sync.preMarker = File(<<"9">>) /\ marker[sync.res] = sync.preMarker
    /\ content[sync.res] = File(ChainText(sync.res))

\* C4 (as claimed): a probe answered 403 does not end the run; the sync ends
\* as a logged access-denied condition and the run goes on to the groups
\* listing or the next group.  Stated for the probe whose last allowed
\* attempt is answered 403, so that no earlier answer and no timeout is involved.
C4_DeniedRunContinues ==
    (ProbeAnswered403 /\ attempt = Attempts /\ pc # "probe" /\ pc # "crashed") =>
        /\ pc \in {"groups", "loop"}
        /\ sync.result = "denied"
        /\ "Access to library not granted." \in logged

\* C5: while the answer to the probe is 403, and after the sync has ended on
\* it, both files of the resource are as the sync found them.
C5_DeniedLeavesFiles == ProbeAnswered403 => FilesAsBefore

C5_Witness ==
    /\ ProbeAnswered403 /\ pc = "raised" /\ attempt = Attempts
    /\ sync.preContent.exists /\ sync.preMarker.exists

\* C6 (as claimed): a sync that finds the marker file missing or unparsable
\* takes 0 as the cached version and goes through the full fetch, whatever
\* the remote version is.
C6_UnreadableMarkerForcesFetch ==
    (sync.compared /\ MarkerUnreadable) =>
        /\ sync.cached = 0
        /\ sync.result \in {"fetching", "written", "raised"}

\* C7: a sync of a resource that comes after a sync of it that returned, the
\* remote being the same, leaves the content file as it found it and calls
\* follow_and_extract not once.
C7_SecondSyncNoOp ==
    (sync.again /\ sync.result # "none") =>
        /\ content[sync.res] = sync.preContent
        /\ sync.pages = 0
        /\ sync.result \in {"probing", "skipped", "raised"}

C7_Witness ==
    /\ sync.again /\ sync.result = "skipped" /\ sync.res = 0 /\ run = 2
    /\ remoteVersion[0] = 12
    /\ content[0] = File(ChainText(0))
    /\ marker[0] = File(<<"1", "2">>)

\* C8 (as claimed): fetch_url makes at most 3 attempts and raises the error
\* to its caller only after the third failed attempt.
C8_RaisesAfterThirdAttempt ==
    /\ attempt \in 1..Attempts
    /\ pc = "raised" => attempt = Attempts

\* C9: no GET precedes the credential checks, and a run that finds a
\* credential missing logs an error and ends with no GET issued and no file
\* opened for writing.
C9_MissingCredentials ==
    /\ pc = "start" => ~netUsed /\ ~wrote
    /\ (pc # "start" /\ ~(env.uid /\ env.tok)) =>
           pc = "done" /\ ~netUsed /\ ~wrote /\ logged # {} /\ sync.result = "none"

C9_Witness ==
    /\ pc = "done" /\ env.uid /\ ~env.tok
    /\ logged = {"ZOTERO_BEARER_TOKEN not set"} /\ run = 2

\* C10: what follow_and_extract returns for a finite chain is body 1, body 2,
\* .., last body, in the order of the links, nothing between them, every
\* page fetched once.
C10_Concatenation ==
    pc = "open_content" =>
        /\ body = ChainText(cur)
        /\ sync.pages = remotePages[cur]
        /\ sync.gets = 1 + remotePages[cur]

C10_Witness ==
    /\ pc = "open_content" /\ remotePages[cur] = MaxPages
    /\ cur = 0 /\ remoteVersion[0] = 9
    /\ body[1] = "A" /\ body[Len(body) - 1] = Upper[MaxPages] /\ Len(body) = 2 * MaxPages

\* the fetch of a page of the running or last sync was given up
PageFetchGaveUp ==
    /\ sync.result \in {"fetching", "raised"} /\ sync.compared
    /\ HTTPError(lastStatus)
    /\ pc \notin {"page", "crashed"}

\* C11: once the fetch of a page of the chain has been given up, whatever
\* the number of pages fetched before it, follow_and_extract has returned
\* nothing, the error has left the sync, and both files of the resource
\* are as the sync found them.
C11_FailedPageWritesNothing ==
    PageFetchGaveUp =>
        /\ pc = "raised" /\ sync.result = "raised"
        /\ body = <<>> /\ ~sync.contentDone
        /\ FilesAsBefore

C11_Witness ==
    /\ PageFetchGaveUp /\ attempt = Attempts
    /\ sync.gets = MaxPages /\ sync.pages = MaxPages
    /\ sync.preContent.exists /\ sync.preMarker.exists

\* C13: a fetch that fails on its last allowed attempt with anything but a
\* 403, in the probe, in a page or in the groups listing, ends the run; and
\* once a run has ended on an error, the only step left is the start of the
\* next run, which finds both files of every resource as the failed run left
\* them.
C13_FailureEndsRun ==
    [][ /\ ( /\ pc \in {"probe", "page", "groups"}
             /\ attempt = Attempts
             /\ pc' # "crashed"
             /\ HTTPError(lastStatus') /\ lastStatus' # Forbidden )
           => (pc' = "raised" /\ content' = content /\ marker' = marker)
        /\ pc = "raised"
           => (pc' = "start" /\ run' = run + 1 /\ content' = content /\ marker' = marker)
      ]_vars

C13_Witness ==
    /\ pc = "raised" /\ lastStatus = 500 /\ attempt = Attempts
    /\ sync.res = 1 /\ sync.result = "raised" /\ sync.before = "written"
    /\ content[0] = File(ChainText(0)) /\ CachedVersion(marker[0]) = remoteVersion[0]
    /\ content[1] = sync.preContent

\* the ids of the first n entries of the listing that have an id, in order
RECURSIVE IdsPresent(_)
IdsPresent(n) ==
    IF n = 0 THEN <<>>
    ELSE IdsPresent(n - 1) \o (IF groups[n].has THEN <<groups[n].id>> ELSE <<>>)

\* the ids of the first n entries of the listing whose id is present and
\* neither 0 nor empty
RECURSIVE IdsNonZero(_)
IdsNonZero(n) ==
    IF n = 0 THEN <<>>
    ELSE IdsNonZero(n - 1)
            \o (IF groups[n].has /\ groups[n].id # 0 THEN <<groups[n].id>> ELSE <<>>)

\* the listing is one the Zotero API gives: every id is a positive integer
ListingOfApi == \A i \in 1..Len(groups) : groups[i].has => groups[i].id > 0

CredentialsFound == env.uid /\ env.tok

\* C14: at every point of a run in which no fetch has failed, the syncs
\* begun are the one of the user's library and then one per entry the loop
\* has passed whose id is present and not 0; an entry without an id begins
\* no sync and the loop goes on after it.  On a listing of the API, whose
\* ids are positive integers, that is one sync per entry that has an id.
C14_OnePerEntryWithId ==
    (pc \notin {"start", "raised", "crashed"} /\ CredentialsFound) =>
        /\ started = <<0>> \o IdsNonZero(IF gi = 0 THEN 0 ELSE gi - 1)
        /\ ListingOfApi => started = <<0>> \o IdsPresent(IF gi = 0 THEN 0 ELSE gi - 1)

C14_Witness ==
    /\ pc = "done" /\ Len(groups) = 2
    /\ ~groups[1].has /\ groups[2] = [has |-> TRUE, id |-> 1]
    /\ started = <<0, 1>> /\ sync.res = 1 /\ sync.result = "written"

\* C16: a step changes a content file or a marker file only if it is a file
\* of the resource whose sync is running, past its comparison of versions.
C16_OwnFilesOnly ==
    [][\A r \in Resources :
          (content'[r] # content[r] \/ marker'[r] # marker[r]) =>
              /\ r = cur /\ r = sync.res /\ sync.result = "fetching"
              /\ pc \in {"open_content", "write_content", "close_content",
                        "open_marker", "close_marker"}
      ]_vars

C16_Witness ==
    /\ sync.res = 1 /\ sync.result = "written" /\ started = <<0, 1>>
    /\ content[1] = File(ChainText(1)) /\ marker[1] = File(Str(remoteVersion[1]))
    /\ content[0] = File(ChainText(0)) /\ marker[0] = File(Str(remoteVersion[0]))

\* C17: the groups listing is requested only after the sync of the user's
\* library, the first of the run, has returned (skipped or written); a
\* group's sync begins only after the sync before it has returned; and the
\* sync that is running is the one of the entry the loop is at.
C17_Sequential ==
    /\ pc = "groups" =>
           sync.res = 0 /\ sync.result \in {"skipped", "written"} /\ started = <<0>>
    /\ (sync.result # "none" /\ Len(started) = 1) => (sync.res = 0 /\ sync.before = "none")
    /\ (sync.result # "none" /\ Len(started) > 1) => sync.before \in {"skipped", "written"}
    /\ (pc \in {"probe", "open_cache", "read_cache", "close_cache", "page",
                "open_content", "write_content", "close_content", "open_marker",
                "write_marker", "close_marker"} /\ gi > 0) =>
           (groups[gi - 1].has /\ cur = groups[gi - 1].id /\ sync.res = cur)

C17_Witness ==
    /\ pc = "probe" /\ Len(groups) = 2 /\ gi = 3
    /\ groups[1].id = 1 /\ groups[2].id = 1
    /\ started = <<0, 1, 1>> /\ sync.before = "written"

\* C12: with the remote changing at any moment and runs stopping anywhere,
\* a marker file that holds the remote's current version goes with a content
\* file that is the concatenation of the remote's current pages.
C12_MarkerNeverAhead ==
    \A r \in Resources :
        (MarkerHolds(r) /\ CachedVersion(marker[r]) = remoteVersion[r]) =>
            content[r] = File(ChainText(r))

\* the first run fetched page 1 at version 9 and the next page at version 12
\* and left the marker "9"; the second run has fetched the library again
C12_Witness ==
    /\ run = 2 /\ sync.res = 0 /\ sync.result = "written"
    /\ sync.preMarker = File(<<"9">>)
    /\ sync.preContent = File(<<"A", "9", "B", "1", "2">>)
    /\ remoteVersion[0] = 12
    /\ marker[0] = File(<<"1", "2">>)
    /\ content[0] = File(ChainText(0))

\* C15 (as claimed): with every fetch succeeding within its attempts,
\* follow_and_extract on a chain that ends returns, whatever the length of
\* the chain, having been called once per page and having got each page
\* once, in order; on a chain that links back to its first page it never
\* returns.
C15_ChainFetchedOnce ==
    /\ [](pc = "open_content" =>
            /\ ~remoteLoop[cur]
            /\ sync.pages = remotePages[cur]
            /\ sync.gets = remotePages[cur] + 1
            /\ body = ChainText(cur))
    /\ []((sync.result = "fetching" /\ remoteLoop[sync.res]) => pc = "page")
    /\ ((pc = "page" /\ ~remoteLoop[cur]) ~> pc = "open_content")

====
